---- MODULE Spec2Model ----
(***************************************************************************)
(* Model of nqft/hall_effect.py: the tight-binding transport pipeline      *)
(* (get_energies, get_spectral_weight, class Model and its getters).       *)
(*                                                                         *)
(* Reals are held as fixed-point integers:                                 *)
(*   momenta                     in units of 1/KScale    (1e-6 rad)        *)
(*   sines and cosines           in units of 1/TrigScale (1e-4)            *)
(*   hoppings, mu, omega, eta,                                             *)
(*   energies, derivatives,                                                *)
(*   conductivities, Hall number in units of 1/Scale     (1e-2)            *)
(*   spectral weight, occupation,                                          *)
(*   density                     in units of 1/AScale    (1e-4)            *)
(* The IEEE special values NaN and Inf (an infinity of either sign) are    *)
(* two integers outside the range of every number the model computes.      *)
(* Charges are counted in units of the elementary charge.  The factor      *)
(* norm = 1/R^2 is held as its denominator R^2.                            *)
(***************************************************************************)
EXTENDS Integers, Sequences, FiniteSets, TLC

\* ------------------------------------------------------------------------
\* Bounds of the model
\* ------------------------------------------------------------------------
MaxRes == 7          \* largest grid resolution a caller passes
MaxMus == 2          \* longest chemical-potential sweep that is built
PetersRes == 4       \* grid size standing for the reference-data grid
MaxFiles == 2        \* most reference-data files the data source returns

\* ------------------------------------------------------------------------
\* Fixed-point arithmetic
\* ------------------------------------------------------------------------
KScale == 10^6
TrigScale == 10^4
Scale == 10^2
AScale == 10^4

NaN == 2^30 + (2^30 - 1)
Inf == NaN - 1
IsNum(x) == x # NaN /\ x # Inf

Abs(x) == IF x < 0 THEN -x ELSE x

\* a / b rounded to the nearest integer (b > 0), halves away from zero
RoundDiv(a, b) == IF a >= 0 THEN (2 * a + b) \div (2 * b)
                            ELSE -((2 * (-a) + b) \div (2 * b))

\* scipy.constants.pi, below the real pi as the double is
Pi == 3141592
\* scipy.constants.e, the unit of charge
ElemCharge == 1
\* 1/pi, pi, pi^2/3 and exp(1) in units of 1/TrigScale
InvPi == 3183
PiT == 31416
PiSqThird == 32899
Euler == 27183
\* the inverse temperature of get_density
beta == 100

\* a value times a real factor c in units of 1/TrigScale, split so that the
\* intermediate products stay in range
FMul(x, c) ==
    LET a == Abs(x)
        p == (a \div TrigScale) * c + RoundDiv((a % TrigScale) * c, TrigScale)
    IN  IF x < 0 THEN -p ELSE p

RECURSIVE QuoRem(_, _, _)
\* <<q, r>> with a * b = q * c + r and 0 <= r < c, for a, b >= 0 and c > 0,
\* computed without forming the product a * b
QuoRem(a, b, c) ==
    IF b = 0 THEN <<0, 0>>
    ELSE LET h == QuoRem(a, b \div 2, c)
             r3 == 2 * h[2] + (b % 2) * (a % c)
             q3 == 2 * h[1] + (b % 2) * (a \div c)
         IN  <<q3 + r3 \div c, r3 % c>>

\* a * b / c rounded to the nearest integer, c # 0
MulDiv(a, b, c) ==
    LET qr == QuoRem(Abs(a), Abs(b), Abs(c))
        q == qr[1] + (IF 2 * qr[2] >= Abs(c) THEN 1 ELSE 0)
        neg == ((a < 0) # (b < 0)) # (c < 0)
    IN  IF neg THEN -q ELSE q

\* ------------------------------------------------------------------------
\* numpy.cos, numpy.sin on a momentum in units of 1/KScale
\* ------------------------------------------------------------------------
RECURSIVE CosSeries(_, _, _, _)
\* Taylor series of cos: sum of the terms from `term` (the n-th) onwards
CosSeries(x2, term, n, acc) ==
    IF term = 0 \/ n > 12 THEN acc
    ELSE LET next == -RoundDiv(RoundDiv(term * x2, TrigScale),
                               (2 * n + 1) * (2 * n + 2))
         IN  CosSeries(x2, next, n + 1, acc + term)

\* cos of an angle in [0, pi/2], angle in units of 1/TrigScale
CosSmall(x) == CosSeries(RoundDiv(x * x, TrigScale), TrigScale, 0, 0)

cos(k) ==
    LET r == Abs(k) % (2 * Pi)
        s == IF r > Pi THEN 2 * Pi - r ELSE r
    IN  IF 2 * s > Pi THEN -CosSmall(RoundDiv(Pi - s, KScale \div TrigScale))
                      ELSE CosSmall(RoundDiv(s, KScale \div TrigScale))

sin(k) == cos(k - Pi \div 2)

\* ------------------------------------------------------------------------
\* numpy.linspace(-pi, pi, num), numpy.meshgrid, numpy.arange
\* ------------------------------------------------------------------------
\* linspace: step = (stop - start) / (num - 1), y[i] = i * step + start,
\* and the last sample is set to stop
linspace(start, stop, num) ==
    IF num = 1 THEN <<start>>
    ELSE LET step == RoundDiv(stop - start, num - 1)
         IN  [i \in 1..num |-> IF i = num THEN stop
                                ELSE (i - 1) * step + start]

\* meshgrid(k_s, k_s): k_x[i][j] = k_s[j], k_y[i][j] = k_s[i]
meshgrid_x(ks) == [i \in 1..Len(ks) |-> [j \in 1..Len(ks) |-> ks[j]]]
meshgrid_y(ks) == [i \in 1..Len(ks) |-> [j \in 1..Len(ks) |-> ks[i]]]

\* arange(start, stop, step) for step > 0: start, start+step, ... below stop
arange_len(start, stop, step) ==
    IF stop <= start THEN 0 ELSE (stop - start + step - 1) \div step
arange(start, stop, step) ==
    [m \in 1..arange_len(start, stop, step) |-> start + (m - 1) * step]

\* ------------------------------------------------------------------------
\* get_energies
\* ------------------------------------------------------------------------
\* coefficient (in 1/Scale) times a trigonometric sum (in 1/TrigScale)
TMul(c, trig) == RoundDiv(c * trig, TrigScale)

\* E0 without the second-neighbour-along-axis term
E0_no_tpp(hops, x, y) ==
    TMul(-2 * hops[1], cos(x) + cos(y))
    + TMul(-2 * hops[2], cos(x + y) + cos(x - y))

E0(hops, x, y) ==
    LET t == hops[1]
        tp == hops[2]
        tpp == hops[3]
        a == TMul(-2 * t, cos(x) + cos(y))
        b == TMul(-2 * tp, cos(x + y) + cos(x - y))
        c == TMul(-2 * tpp, cos(2 * x) + cos(2 * y))
    IN  a + b + c

dE_dx(hops, x, y) ==
    2 * (TMul(hops[1], sin(x)) + TMul(hops[2], sin(x - y) + sin(x + y))
         + 2 * TMul(hops[3], sin(2 * x)))
ddE_dxx(hops, x, y) ==
    2 * (TMul(hops[1], cos(x)) + TMul(hops[2], cos(x - y) + cos(x + y))
         + 4 * TMul(hops[3], cos(2 * x)))
dE_dy(hops, x, y) ==
    2 * (TMul(hops[1], sin(y)) + TMul(hops[2], sin(x + y) - sin(x - y))
         + 2 * TMul(hops[3], sin(2 * y)))
ddE_dyy(hops, x, y) ==
    2 * (TMul(hops[1], cos(y)) + TMul(hops[2], cos(x + y) + cos(x - y))
         + 4 * TMul(hops[3], cos(2 * y)))
\* the mixed derivative with the coefficient t in the place of t'
ddE_dxdy_with_t(hops, x, y) ==
    2 * TMul(hops[1], cos(x + y) - cos(x - y))

ddE_dxdy(hops, x, y) ==
    2 * TMul(hops[2], cos(x + y) - cos(x - y))

\* get_energies with the chemical potential added instead of subtracted
get_energies_E_plus(hops, kx, ky, mus) ==
    [m \in 1..Len(mus) |->
        [i \in 1..Len(kx) |-> [j \in 1..Len(kx) |->
            E0(hops, kx[i][j], ky[i][j]) + mus[m]]]]

get_energies_E(hops, kx, ky, mus) ==
    LET base == [i \in 1..Len(kx) |-> [j \in 1..Len(kx) |->
                    E0(hops, kx[i][j], ky[i][j])]]
    IN  [m \in 1..Len(mus) |->
            [i \in 1..Len(kx) |-> [j \in 1..Len(kx) |-> base[i][j] - mus[m]]]]

get_energies_dEs(hops, kx, ky) ==
    [dE_dx |-> [i \in 1..Len(kx) |-> [j \in 1..Len(kx) |->
                   dE_dx(hops, kx[i][j], ky[i][j])]],
     ddE_dxx |-> [i \in 1..Len(kx) |-> [j \in 1..Len(kx) |->
                   ddE_dxx(hops, kx[i][j], ky[i][j])]],
     dE_dy |-> [i \in 1..Len(kx) |-> [j \in 1..Len(kx) |->
                   dE_dy(hops, kx[i][j], ky[i][j])]],
     ddE_dyy |-> [i \in 1..Len(kx) |-> [j \in 1..Len(kx) |->
                   ddE_dyy(hops, kx[i][j], ky[i][j])]],
     ddE_dxdy |-> [i \in 1..Len(kx) |-> [j \in 1..Len(kx) |->
                   ddE_dxdy(hops, kx[i][j], ky[i][j])]]]

\* ------------------------------------------------------------------------
\* get_spectral_weight
\* ------------------------------------------------------------------------
\* round(x, 2) of a momentum: the nearest hundredth, in hundredths
Round2(x) == RoundDiv(x, KScale \div 100)

\* the diamond outline: 1 where round(|kx| + |ky|, 2) == round(pi, 2)
diag_line_of(dim) ==
    LET buffer == linspace(-Pi, Pi, dim)
    IN  [i \in 1..dim |-> [j \in 1..dim |->
            IF Round2(Abs(buffer[i]) + Abs(buffer[j])) = Round2(Pi)
            THEN 1 ELSE 0]]

\* the test of the filter loop on one pair of axis samples
InDiamond(bi, bj) == Abs(bi) + Abs(bj) <= Pi

\* the diamond filter built whether or not filter is set
diag_filter_always(dim, filter) ==
    LET buffer == linspace(-Pi, Pi, dim)
    IN  [i \in 1..dim |-> [j \in 1..dim |->
            IF InDiamond(buffer[i], buffer[j]) THEN 1 ELSE 0]]

\* the diamond filter with the loop adding to the ones instead of overwriting
diag_filter_added(dim, filter) ==
    LET buffer == linspace(-Pi, Pi, dim)
    IN  [i \in 1..dim |-> [j \in 1..dim |->
            IF filter
            THEN (IF InDiamond(buffer[i], buffer[j]) THEN 2 ELSE 1)
            ELSE 1]]

\* the diamond filter: all ones, overwritten by the loop when filter is set
diag_filter_of(dim, filter) ==
    LET buffer == linspace(-Pi, Pi, dim)
    IN  [i \in 1..dim |-> [j \in 1..dim |->
            IF filter
            THEN (IF InDiamond(buffer[i], buffer[j]) THEN 1 ELSE 0)
            ELSE 1]]

\* imaginary part of 1 / (omega + eta*1j - e), in units of 1/AScale;
\* 1 / (0 + 0j) has a NaN imaginary part
ImRecip(omega, eta, e) ==
    LET d == omega - e
    IN  IF d = 0 /\ eta = 0 THEN NaN
        ELSE -RoundDiv(eta * Scale * AScale, d * d + eta * eta)

\* the product of a real factor in units of 1/TrigScale and a value
RMul(c, x) == IF ~IsNum(x) THEN NaN ELSE RoundDiv(c * x, TrigScale)

\* the entry without the factor 1 / pi
Lorentz_no_pi(omega, eta, e) ==
    LET im == ImRecip(omega, eta, e)
    IN  IF ~IsNum(im) THEN NaN ELSE -im

\* one entry of (-1 / pi * A).imag
Lorentz(omega, eta, e) == RMul(-InvPi, ImRecip(omega, eta, e))

\* the product of a mask entry (0.0 or 1.0) and a value
MaskMul(f, x) == IF x = NaN THEN NaN
                 ELSE IF x = Inf THEN (IF f = 0 THEN NaN ELSE Inf)
                 ELSE f * x

\* diag_filter * A.imag, broadcast over the mu-slices
ApplyMask(mask, A) ==
    [m \in 1..Len(A) |-> [i \in 1..Len(mask) |-> [j \in 1..Len(mask) |->
        MaskMul(mask[i][j], A[m][i][j])]]]

\* A.imag before the mask is applied
Broadened(omega, eta, E) ==
    [m \in 1..Len(E) |-> [i \in 1..Len(E[m]) |-> [j \in 1..Len(E[m]) |->
        Lorentz(omega, eta, E[m][i][j])]]]

\* the pair returned by get_spectral_weight (E has at least one mu-slice)
get_spectral_weight(omega, eta, E, filter) ==
    LET dim == Len(E[1])
    IN  [A |-> ApplyMask(diag_filter_of(dim, filter), Broadened(omega, eta, E)),
         diag_line |-> diag_line_of(dim)]

\* ------------------------------------------------------------------------
\* Array arithmetic of the transport aggregates
\* ------------------------------------------------------------------------
\* x * y of two values in units of 1/Scale; NaN propagates
P(x, y) == IF ~IsNum(x) \/ ~IsNum(y) THEN NaN ELSE RoundDiv(x * y, Scale)

\* A**2 and A**3 of a spectral weight, in units of 1/Scale
APow2(a) == IF ~IsNum(a) THEN NaN ELSE RoundDiv(a * a, (AScale * AScale) \div Scale)
APow3(a) == IF ~IsNum(a) THEN NaN ELSE RoundDiv(APow2(a) * a, AScale)

Add(x, y) == IF ~IsNum(x) \/ ~IsNum(y) THEN NaN ELSE x + y

RECURSIVE SeqSum(_)
SeqSum(s) == IF Len(s) = 0 THEN 0
             ELSE Add(SeqSum(SubSeq(s, 1, Len(s) - 1)), s[Len(s)])

\* ndarray.sum() of a two-dimensional array
GridSum(g) == SeqSum([i \in 1..Len(g) |-> SeqSum(g[i])])

\* entry (i, j) of a two-dimensional array broadcast against a larger one
BAt(g, i, j) == IF Len(g) = 1 THEN g[1][1] ELSE g[i][j]

\* numpy broadcasting of an (R, R) array against A of shape (n, r, r) or (0,)
Broadcastable(Aw, R) ==
    /\ Len(Aw) > 0
    /\ Len(Aw[1]) = R \/ Len(Aw[1]) = 1 \/ R = 1

BDim(Aw, R) == IF Len(Aw[1]) > R THEN Len(Aw[1]) ELSE R

\* norm * x, the norm 1/R^2 given by its denominator
NormMul(nrm, x) == IF ~IsNum(x) THEN NaN ELSE RoundDiv(x, nrm)

\* sigma_ii with each slice's sum multiplied by norm
sigma_ii_normalised(dE, Aw) ==
    LET coeff == (-ElemCharge) * (-ElemCharge) * PiT
        dim == BDim(Aw, Len(dE))
        sig(m) == [i \in 1..dim |-> [j \in 1..dim |->
                     P(P(BAt(dE, i, j), BAt(dE, i, j)), APow2(BAt(Aw[m], i, j)))]]
    IN  [m \in 1..Len(Aw) |->
            LET s == GridSum(sig(m))
            IN  IF ~IsNum(s) THEN NaN
                ELSE FMul(NormMul(dim * dim, s), 2 * coeff)]

\* sigma_ii: 2 * coeff * sum(dE**2 * A**2) per mu-slice, coeff = (-e)**2 * pi
sigma_ii_of(dE, Aw) ==
    LET coeff == (-ElemCharge) * (-ElemCharge) * PiT
        dim == BDim(Aw, Len(dE))
        sig(m) == [i \in 1..dim |-> [j \in 1..dim |->
                     P(P(BAt(dE, i, j), BAt(dE, i, j)), APow2(BAt(Aw[m], i, j)))]]
    IN  [m \in 1..Len(Aw) |->
            LET s == GridSum(sig(m))
            IN  IF ~IsNum(s) THEN NaN ELSE FMul(s, 2 * coeff)]

\* the bracket c1 + c2 + c3 of sigma_ij at one grid point
CurvTerm(d, i, j) ==
    LET c1 == P(P(-2 * BAt(d.dE_dx, i, j), BAt(d.dE_dy, i, j)), BAt(d.ddE_dxdy, i, j))
        c2 == P(P(BAt(d.dE_dx, i, j), BAt(d.dE_dx, i, j)), BAt(d.ddE_dyy, i, j))
        c3 == P(P(BAt(d.dE_dy, i, j), BAt(d.dE_dy, i, j)), BAt(d.ddE_dxx, i, j))
    IN  c1 + c2 + c3

\* sigma_ij: 2 * coeff * sum((c1 + c2 + c3) * A**3), coeff = (-e)**3 * pi**2 / 3
sigma_ij_of(d, Aw) ==
    LET coeff == (-ElemCharge) * (-ElemCharge) * (-ElemCharge) * PiSqThird
        dim == BDim(Aw, Len(d.dE_dx))
        sig(m) == [i \in 1..dim |-> [j \in 1..dim |->
                     P(CurvTerm(d, i, j), APow3(BAt(Aw[m], i, j)))]]
    IN  [m \in 1..Len(Aw) |->
            LET s == GridSum(sig(m))
            IN  IF ~IsNum(s) THEN NaN ELSE FMul(s, 2 * coeff)]

\* exp(n) for an integer n >= 0, in units of 1/AScale, by n multiplications
\* from p = exp(k); Inf once the value leaves the range of the number format
RECURSIVE ExpFrom(_, _, _)
ExpFrom(k, n, p) ==
    IF k = n THEN p
    ELSE IF p > 2^29 THEN Inf
    ELSE ExpFrom(k + 1, n, FMul(p, Euler))

\* numpy.exp of beta * E, the argument given in units of 1/Scale
exp(x) ==
    LET n == x \div Scale
        p == ExpFrom(0, Abs(n), AScale)
    IN  IF n >= 0 THEN p
        ELSE IF p = Inf THEN 0
        ELSE RoundDiv(AScale * AScale, p)

\* 2.0 / (1.0 + exp(beta * E)) at one grid point, in units of 1/AScale
fermi_dirac(e) ==
    LET u == exp(beta * e)
    IN  IF u = Inf THEN 0 ELSE RoundDiv(2 * AScale * AScale, AScale + u)

\* get_density without the factor norm
get_density_unnormalised(nrm, En) ==
    [m \in 1..Len(En) |->
        GridSum([i \in 1..Len(En[m]) |-> [j \in 1..Len(En[m]) |->
                    fermi_dirac(En[m][i][j])]])]

\* get_density: norm * sum(fermi_dirac) per mu-slice
get_density_of(nrm, En) ==
    [m \in 1..Len(En) |->
        NormMul(nrm, GridSum([i \in 1..Len(En[m]) |-> [j \in 1..Len(En[m]) |->
                                 fermi_dirac(En[m][i][j])]]))]

\* the Hall ratio with a zero denominator answered by 0
HallRatio_zero_guard(nrm, sxx, syy, sxy) ==
    LET n1 == NormMul(nrm, sxx)
    IN  IF ~IsNum(n1) \/ ~IsNum(syy) \/ ~IsNum(sxy) THEN NaN
        ELSE IF sxy = 0 THEN 0
        ELSE MulDiv(n1, syy, ElemCharge * sxy)

\* one entry of norm * s_xx * s_yy / (e * s_xy)
HallRatio(nrm, sxx, syy, sxy) ==
    LET den == IF ~IsNum(sxy) THEN NaN ELSE ElemCharge * sxy
        n1 == NormMul(nrm, sxx)
    IN  IF ~IsNum(n1) \/ ~IsNum(syy) \/ ~IsNum(den) THEN NaN
        ELSE IF den = 0 THEN (IF n1 = 0 \/ syy = 0 THEN NaN ELSE Inf)
        ELSE MulDiv(n1, syy, den)

get_hall_nb_of(nrm, d, Aw) ==
    LET s_xy == sigma_ij_of(d, Aw)
        s_xx == sigma_ii_of(d.dE_dx, Aw)
        s_yy == sigma_ii_of(d.dE_dy, Aw)
    IN  [m \in 1..Len(Aw) |-> HallRatio(nrm, s_xx[m], s_yy[m], s_xy[m])]

\* ------------------------------------------------------------------------
\* Inputs: constructor arguments and the reference-data source
\* ------------------------------------------------------------------------
Hoppings == {<<100, -30, 20>>, <<100, 0, 20>>, <<0, -30, 0>>}
Broadenings == {0, 10}
Omegas == {0}
MuStarts == {0, 120}
MuStops == {100, 500}
MuSteps == {200}
Resolutions == (-1)..MaxRes
Variables == {"x", "y", "z"}

\* the shapes (dim x dim) the arrays stored in the reference-data files may
\* have: np.load returns whatever the files hold
ArcDims == {1, PetersRes - 1, PetersRes}

\* the array stored in the reference-data file of a label
ArcArray(label, dim) ==
    [i \in 1..dim |-> [j \in 1..dim |-> 2000 * label + 500 * j]]

\* read_fermi_arc(): the files glob finds, in the order glob lists them,
\* each with its label and its array
IsFileList(fs) ==
    \A a, b \in 1..Len(fs) : fs[a] = fs[b] => a = b
\* a directory of up to MaxFiles files in any order, or the complete set of
\* one file per doping value in one of its cyclic orders
CompleteLists ==
    {[n \in 1..5 |-> ((n + r - 1) % 5) + 1] : r \in 0..4}
FileLists ==
    {fs \in UNION {[1..n -> 1..MaxFiles] : n \in 0..MaxFiles} : IsFileList(fs)}
    \cup CompleteLists
read_fermi_arc(fs, dim) ==
    [n \in 1..Len(fs) |-> [ext |-> fs[n], arr |-> ArcArray(fs[n], dim)]]

\* the arrays of the data source with the diamond filter applied to them
stack_arcs_filtered(read) ==
    IF Len(read) = 0 THEN <<>>
    ELSE ApplyMask(diag_filter_of(Len(read[1].arr), TRUE),
                   [n \in 1..Len(read) |-> read[n].arr])

\* np.array([array for array in read_fermi_arc().values()])
stack_arcs(read) == [n \in 1..Len(read) |-> read[n].arr]

\* the fixed settings of the reference-data mode
PetersEta == 10
PetersHops == <<100, -30, 20>>
PetersMus == <<-130, -100, -75, -40, 0>>
\* 1 - [0.66666666666, 0.77777777777, 0.83333333333, 0.88888888888, 1.0]
PetersDoping == <<3333, 2222, 1667, 1111, 0>>

\* ------------------------------------------------------------------------
\* State
\* ------------------------------------------------------------------------
VARIABLES
    pc,          \* "new", "ready" (a Model exists) or "failed" (__init__ raised)
    use_filter,  \* the use_filter argument of the Model(...) call
    arcs,        \* what read_fermi_arc() returned to __init__
    w, use_peters, eta, norm, hops, mus, k_x, k_y, E, dEs, A, diamond,
    op,          \* the last getter called
    arg,         \* the argument it was called with ("none" when it takes none)
    raised,      \* whether that call raised
    ret          \* what it returned

fields == <<w, use_peters, eta, norm, hops, mus, k_x, k_y, E, dEs, A, diamond>>
vars == <<pc, use_filter, arcs, fields, op, arg, raised, ret>>

NoDEs == [dE_dx |-> <<>>, ddE_dxx |-> <<>>, dE_dy |-> <<>>, ddE_dyy |-> <<>>,
          ddE_dxdy |-> <<>>]

Init ==
    /\ pc = "new"
    /\ use_filter = FALSE
    /\ arcs = <<>>
    /\ w = 0 /\ use_peters = FALSE /\ eta = 0 /\ norm = 0
    /\ hops = <<0, 0, 0>> /\ mus = <<>>
    /\ k_x = <<>> /\ k_y = <<>> /\ E = <<>> /\ dEs = NoDEs
    /\ A = <<>> /\ diamond = <<>>
    /\ op = "none" /\ arg = "none" /\ raised = FALSE /\ ret = <<>>

\* ------------------------------------------------------------------------
\* Model.__init__
\* ------------------------------------------------------------------------
\* the hoppings handed to get_energies in the reference-data branch
PetersEnergyHops(hoppings) == hoppings

\* whether the synthetic branch raises: 1 / resolution**2 divides by zero,
\* linspace rejects a negative sample count, and get_spectral_weight reads
\* E.shape[1] of an energy array that has no mu-slice
InitRaises(musarg, resolution) ==
    \/ resolution <= 0
    \/ arange_len(musarg[1], musarg[2], musarg[3]) = 0

Model_init(hoppings, broadening, omega, musarg, resolution, peters, filter, fs, dim) ==
    /\ pc = "new"
    /\ use_filter' = filter
    /\ UNCHANGED <<op, arg, raised, ret>>
    /\ IF peters
       THEN LET k_s == linspace(-Pi, Pi, PetersRes)
                kx == meshgrid_x(k_s)
                ky == meshgrid_y(k_s)
                read == read_fermi_arc(fs, dim)
            IN  /\ pc' = "ready"
                /\ arcs' = read
                /\ w' = omega
                /\ use_peters' = TRUE
                /\ eta' = PetersEta
                /\ norm' = PetersRes * PetersRes
                /\ hops' = PetersHops
                /\ mus' = PetersMus
                /\ k_x' = kx
                /\ k_y' = ky
                /\ E' = get_energies_E(PetersEnergyHops(hoppings), kx, ky, PetersMus)
                /\ dEs' = get_energies_dEs(PetersEnergyHops(hoppings), kx, ky)
                /\ A' = stack_arcs(read)
                /\ diamond' = <<>>
       ELSE IF InitRaises(musarg, resolution)
       THEN /\ pc' = "failed"
            /\ UNCHANGED <<arcs, fields>>
       ELSE LET k_s == linspace(-Pi, Pi, resolution)
                kx == meshgrid_x(k_s)
                ky == meshgrid_y(k_s)
                ms == arange(musarg[1], musarg[2], musarg[3])
                En == get_energies_E(hoppings, kx, ky, ms)
                sw == get_spectral_weight(omega, broadening, En, filter)
            IN  /\ pc' = "ready"
                /\ UNCHANGED arcs
                /\ w' = omega
                /\ use_peters' = FALSE
                /\ hops' = hoppings
                /\ eta' = broadening
                /\ mus' = ms
                /\ norm' = resolution * resolution
                /\ k_x' = kx
                /\ k_y' = ky
                /\ E' = En
                /\ dEs' = get_energies_dEs(hoppings, kx, ky)
                /\ A' = sw.A
                /\ diamond' = sw.diag_line

Construct ==
    /\ pc = "new"
    /\ \E hoppings \in Hoppings, broadening \in Broadenings, omega \in Omegas,
          start \in MuStarts, stop \in MuStops, step \in MuSteps,
          resolution \in Resolutions, peters \in BOOLEAN, filter \in BOOLEAN,
          fs \in FileLists, dim \in ArcDims :
           /\ arange_len(start, stop, step) <= MaxMus
           /\ ~peters => (fs = <<>> /\ dim = PetersRes)
           \* use_peters ignores mus and resolution: one value of each is passed
           /\ peters => (start = 0 /\ stop = 100 /\ resolution = 4)
           /\ Model_init(hoppings, broadening, omega, <<start, stop, step>>,
                         resolution, peters, filter, fs, dim)

\* ------------------------------------------------------------------------
\* The getters
\* ------------------------------------------------------------------------
Returns(name, a, value) ==
    /\ op' = name /\ arg' = a /\ raised' = FALSE /\ ret' = value
    /\ UNCHANGED <<pc, use_filter, arcs, fields>>

Raises(name, a) ==
    /\ op' = name /\ arg' = a /\ raised' = TRUE /\ ret' = <<>>
    /\ UNCHANGED <<pc, use_filter, arcs, fields>>

\* sigma_ii with the second branch taken for every argument but "x"
sigma_ii_else(variable) ==
    /\ pc = "ready"
    /\ IF ~Broadcastable(A, Len(k_x))
       THEN Raises("sigma_ii", variable)
       ELSE Returns("sigma_ii", variable,
                    sigma_ii_of(IF variable = "x" THEN dEs.dE_dx ELSE dEs.dE_dy, A))

\* sigma_ii(variable): dE is bound for "x" and "y" only
sigma_ii(variable) ==
    /\ pc = "ready"
    /\ IF variable \notin {"x", "y"} \/ ~Broadcastable(A, Len(k_x))
       THEN Raises("sigma_ii", variable)
       ELSE Returns("sigma_ii", variable,
                    sigma_ii_of(IF variable = "x" THEN dEs.dE_dx ELSE dEs.dE_dy, A))

sigma_ij ==
    /\ pc = "ready"
    /\ IF ~Broadcastable(A, Len(k_x))
       THEN Raises("sigma_ij", "none")
       ELSE Returns("sigma_ij", "none", sigma_ij_of(dEs, A))

\* get_density scaling the stored energies by beta in place
get_density_inplace ==
    /\ pc = "ready"
    /\ op' = "get_density" /\ arg' = "none" /\ raised' = FALSE
    /\ ret' = get_density_of(norm, E)
    /\ E' = [m \in 1..Len(E) |-> [i \in 1..Len(E[m]) |->
                [j \in 1..Len(E[m][i]) |-> beta * E[m][i][j]]]]
    /\ UNCHANGED <<pc, use_filter, arcs, w, use_peters, eta, norm, hops, mus,
                   k_x, k_y, dEs, A, diamond>>

get_density ==
    /\ pc = "ready"
    /\ Returns("get_density", "none", get_density_of(norm, E))

get_hall_nb ==
    /\ pc = "ready"
    /\ IF ~Broadcastable(A, Len(k_x))
       THEN Raises("get_hall_nb", "none")
       ELSE Returns("get_hall_nb", "none", get_hall_nb_of(norm, dEs, A))

\* plot_hall: the points (doping, Hall number) handed to ax.plot, which
\* raises when the two arrays differ in length
plot_hall ==
    /\ pc = "ready"
    /\ IF ~Broadcastable(A, Len(k_x))
       THEN Raises("plot_hall", "none")
       ELSE LET density == get_density_of(norm, E)
                doping == IF use_peters THEN PetersDoping
                          ELSE [m \in 1..Len(E) |-> AScale - density[m]]
                hall_coeffs == get_hall_nb_of(norm, dEs, A)
                points == IF use_peters THEN Len(PetersDoping) ELSE Len(E)
            IN  IF points # Len(A)
                THEN Raises("plot_hall", "none")
                ELSE Returns("plot_hall", "none",
                             [m \in 1..points |->
                                 <<doping[m], hall_coeffs[m]>>])

Next ==
    \/ Construct
    \/ plot_hall
    \/ \E variable \in Variables : sigma_ii(variable)
    \/ sigma_ij
    \/ get_density
    \/ get_hall_nb

Spec == Init /\ [][Next]_vars

\* ------------------------------------------------------------------------
\* Properties
\* ------------------------------------------------------------------------
Synthetic == pc = "ready" /\ ~use_peters
Reference == pc = "ready" /\ use_peters
Slices == 1..Len(A)
Axis == 1..Len(k_x)

\* the broadened weight of grid point (i, j) of slice m before any mask
Unmasked(m, i, j) == Lorentz(w, eta, E[m][i][j])

\* C1: in reference-data mode E and dEs are the energies and derivatives of
\* the fixed hoppings stored on the model, whatever hoppings the caller passed
C1_PetersEnergiesUseFixedHops ==
    Reference =>
        /\ hops = PetersHops
        /\ E = get_energies_E(hops, k_x, k_y, mus)
        /\ dEs = get_energies_dEs(hops, k_x, k_y)

\* C2: with filter set, the weight of every grid point is multiplied by 1
\* when round(|kx|+|ky|, 2) <= round(pi, 2) and by 0 otherwise, so every
\* point of the diamond outline keeps its weight
C2_OutlineKeepsWeight ==
    (Synthetic /\ use_filter) =>
        \A m \in Slices, i, j \in Axis :
            /\ A[m][i][j] =
                 MaskMul(IF Round2(Abs(k_x[i][j]) + Abs(k_y[i][j])) <= Round2(Pi)
                         THEN 1 ELSE 0, Unmasked(m, i, j))
            /\ diamond[i][j] = 1 => A[m][i][j] = Unmasked(m, i, j)

\* C3: the diamond outline is 1 exactly where round(|kx|+|ky|, 2) equals
\* round(pi, 2), with the filter and without it, and without the filter the
\* spectral weight is the unmasked broadened weight
C3_OutlineSameAndNoMask ==
    Synthetic =>
        /\ \A i, j \in Axis :
             diamond[i][j] =
                IF Round2(Abs(k_x[i][j]) + Abs(k_y[i][j])) = Round2(Pi)
                THEN 1 ELSE 0
        /\ ~use_filter =>
             \A m \in Slices, i, j \in Axis : A[m][i][j] = Unmasked(m, i, j)

\* C3 witness: an unfiltered model whose outline is not empty and whose
\* corner, outside the diamond, carries weight
C3_Witness ==
    /\ Synthetic /\ ~use_filter /\ Len(k_x) = 3
    /\ diamond[1][2] = 1 /\ diamond[1][1] = 0
    /\ A[1][1][1] > 0

\* the scenario of C4: hoppings (1.0, -0.3, 0.2), eta 0.1, omega 0.0 and a
\* slice m with mu = 0.0
C4_Scenario(m) ==
    /\ Synthetic
    /\ hops = <<100, -30, 20>> /\ eta = 10 /\ w = 0
    /\ m \in 1..Len(mus) /\ mus[m] = 0

\* C4 as claimed: at resolution 4 the energy array holds the value of
\* kx = ky = 0, and that value is -3.6
C4_EnergyAtOriginRes4 ==
    \A m \in 1..Len(mus) :
        (C4_Scenario(m) /\ Len(k_x) = 4) =>
            \E i, j \in Axis :
                k_x[i][j] = 0 /\ k_y[i][j] = 0 /\ E[m][i][j] = -360

\* C4 as amended: resolution 4 samples no point with kx = 0 or ky = 0;
\* resolution 5 samples kx = ky = 0 at its centre, and the energy there is -3.6
C4_EnergyAtOriginRes5 ==
    \A m \in 1..Len(mus) :
        /\ (C4_Scenario(m) /\ Len(k_x) = 4) =>
              \A i, j \in Axis : k_x[i][j] # 0 /\ k_y[i][j] # 0
        /\ (C4_Scenario(m) /\ Len(k_x) = 5) =>
              k_x[3][3] = 0 /\ k_y[3][3] = 0 /\ E[m][3][3] = -360

C4_Witness ==
    \E m \in 1..Len(mus) : C4_Scenario(m) /\ Len(k_x) = 5 /\ E[m][3][3] = -360

\* C5: with filter set and resolution 3 the axis samples are -pi, 0, pi, the
\* weight of the corner (-pi, -pi) is 0 in every mu-slice and the weight of
\* the centre (0, 0) is the unmasked weight
C5_CornerZeroCentreKept ==
    (Synthetic /\ use_filter /\ Len(k_x) = 3) =>
        /\ k_x[1] = <<-Pi, 0, Pi>>
        /\ \A m \in Slices :
             /\ A[m][1][1] = 0
             /\ A[m][2][2] = Unmasked(m, 2, 2)

\* C6: multiplying the filtered spectral weight by the filter mask again
\* leaves it as it is
C6_FilterIdempotent ==
    Synthetic =>
        ApplyMask(diag_filter_of(Len(k_x), use_filter), A) = A

\* C6 witness: a filtered model in which the mask removed weight
C6_Witness ==
    /\ Synthetic /\ use_filter /\ Len(k_x) = 3
    /\ A[1][1][1] = 0 /\ Unmasked(1, 1, 1) > 0 /\ A[1][2][2] > 0

\* C7: every value get_density returns lies in [0, 2], and so does the
\* occupation of every grid point
C7_DensityInRange ==
    (op = "get_density" /\ ~raised) =>
        /\ \A m \in 1..Len(ret) : 0 <= ret[m] /\ ret[m] <= 2 * AScale
        /\ \A m \in 1..Len(E), i, j \in Axis :
             0 <= fermi_dirac(E[m][i][j]) /\ fermi_dirac(E[m][i][j]) <= 2 * AScale

\* C7 witness: get_density returned a partly filled and a full band
C7_Witness ==
    /\ op = "get_density" /\ ~raised /\ Synthetic /\ Len(k_x) > 1
    /\ \E m \in 1..Len(ret) : 0 < ret[m] /\ ret[m] < 2 * AScale
    /\ \E m \in 1..Len(ret) : ret[m] = 2 * AScale

\* C8 as claimed: the density does not increase with mu
C8_DensityNonIncreasing ==
    (op = "get_density" /\ ~raised) =>
        \A m1, m2 \in 1..Len(ret) :
            mus[m1] <= mus[m2] => ret[m1] >= ret[m2]

\* C8 as amended: the density does not decrease with mu
C8_DensityNonDecreasing ==
    (op = "get_density" /\ ~raised) =>
        \A m1, m2 \in 1..Len(ret) :
            mus[m1] <= mus[m2] => ret[m1] <= ret[m2]

C8_Witness ==
    /\ op = "get_density" /\ ~raised
    /\ \E m1, m2 \in 1..Len(ret) : mus[m1] < mus[m2] /\ ret[m1] < ret[m2]

\* C9: get_hall_nb does not raise when sigma_xy is zero in some mu-slice;
\* that slice's Hall number is Inf or NaN, and every other slice's Hall
\* number is what the slice gives on its own
C9_SingularSliceIsSpecial ==
    (op = "get_hall_nb" /\ Broadcastable(A, Len(k_x))) =>
        /\ ~raised
        /\ Len(ret) = Len(A)
        /\ \A m \in Slices :
             /\ sigma_ij_of(dEs, A)[m] = 0 => ret[m] \in {Inf, NaN}
             /\ ret[m] = get_hall_nb_of(norm, dEs, <<A[m]>>)[1]

\* C9 witness: a sweep with a singular slice that is Inf next to a regular one
C9_Witness ==
    /\ op = "get_hall_nb" /\ ~raised
    /\ \E m1, m2 \in Slices :
         /\ sigma_ij_of(dEs, A)[m1] = 0 /\ ret[m1] = Inf
         /\ sigma_ij_of(dEs, A)[m2] # 0 /\ IsNum(ret[m2])

\* C10: no Model with eta <= 0 or a resolution <= 0 is ever produced
C10_InvalidConfigRejected ==
    pc = "ready" => eta > 0 /\ Len(k_x) > 0

\* C11: sigma_ii and sigma_ij raise whenever the spectral weight is not an
\* M x R x R array for the R of the R x R derivative arrays; they return no
\* conductivity obtained by broadcasting
GridShapeMatches ==
    /\ Len(A) > 0
    /\ \A m \in Slices :
         /\ Len(A[m]) = Len(dEs.dE_dx)
         /\ \A i \in 1..Len(A[m]) : Len(A[m][i]) = Len(dEs.dE_dx)

C11_ShapeMismatchRejected ==
    (op \in {"sigma_ii", "sigma_ij"} /\ ~GridShapeMatches) => raised

\* C12: once a Model exists no getter call changes any of its fields, and a
\* getter called again with the same argument returns what it returned before
C12_GettersAreReads ==
    [][pc = "ready" =>
         /\ fields' = fields
         /\ pc' = pc
         /\ (op' = op /\ arg' = arg) => (ret' = ret /\ raised' = raised)]_vars

\* C12 witness: get_hall_nb has returned a finite value on a model whose
\* fields are all set
C12_Witness ==
    /\ pc = "ready" /\ op = "get_hall_nb" /\ ~raised
    /\ Len(E) > 1 /\ Len(A) > 1 /\ Len(k_x) > 1
    /\ \E m \in 1..Len(ret) : IsNum(ret[m]) /\ ret[m] # 0

\* C13: in every Model the sweep, the energies and the spectral weight have
\* one outer length M, and every getter that returns gives M values
C13_CommonOuterLength ==
    pc = "ready" =>
        /\ Len(mus) = Len(E)
        /\ Len(E) = Len(A)
        /\ (op # "none" /\ ~raised) => Len(ret) = Len(mus)

\* C14: plot_hall pairs the i-th Hall number with 1 - density(mus[i]) in
\* synthetic mode; in reference-data mode it pairs the i-th of the five fixed
\* doping values with the Hall number of the i-th configuration label, in
\* whatever order the data source listed the files
C14_DopingPairing ==
    (op = "plot_hall" /\ ~raised) =>
        IF use_peters
        THEN /\ Len(ret) = Len(PetersDoping)
             /\ \A i \in 1..Len(ret) :
                  /\ ret[i][1] = PetersDoping[i]
                  /\ \A n \in 1..Len(arcs) :
                       arcs[n].ext = i =>
                         ret[i][2] = get_hall_nb_of(norm, dEs, <<arcs[n].arr>>)[1]
        ELSE /\ Len(ret) = Len(mus)
             /\ \A i \in 1..Len(ret) :
                  /\ ret[i][1] = AScale - get_density_of(norm, E)[i]
                  /\ ret[i][2] = get_hall_nb_of(norm, dEs, A)[i]

\* C15: in reference-data mode get_spectral_weight is not run (no outline is
\* produced) and the spectral weight is the arrays of the data source as
\* they were read, one slice per file label, whatever use_filter is
C15_ReferenceWeightsAsRead ==
    Reference =>
        /\ diamond = <<>>
        /\ Len(A) = Len(arcs)
        /\ \A n \in 1..Len(arcs) : A[n] = arcs[n].arr
        /\ \A a, b \in 1..Len(arcs) : arcs[a].ext = arcs[b].ext => a = b

\* C15 witness: a reference-data model built with use_filter set whose
\* slices differ and keep their weight at the corner of the grid
C15_Witness ==
    /\ Reference /\ use_filter
    /\ Len(A) > 1 /\ Len(A[1]) = Len(k_x)
    /\ A[1] # A[2]
    /\ A[1][1][1] > 0

\* the plain sums over the whole grid of slice m, with no factor norm:
\* sum(dE**2 * A**2) and sum((c1 + c2 + c3) * A**3), times 2 * coeff
RawSigmaII(dE, m) ==
    LET s == GridSum([i \in Axis |-> [j \in Axis |->
                 P(P(dE[i][j], dE[i][j]), APow2(BAt(A[m], i, j)))]])
    IN  IF ~IsNum(s) THEN NaN ELSE FMul(s, 2 * PiT)
RawSigmaIJ(m) ==
    LET s == GridSum([i \in Axis |-> [j \in Axis |->
                 P(CurvTerm(dEs, i, j), APow3(BAt(A[m], i, j)))]])
    IN  IF ~IsNum(s) THEN NaN ELSE FMul(s, -2 * PiSqThird)

\* C16: sigma_ii and sigma_ij return the plain grid sums, get_hall_nb returns
\* norm * sigma_xx * sigma_yy / (e * sigma_xy) of those sums, and get_density
\* returns norm times the sum of the occupations: norm enters each once
C16_NormAppliedOnce ==
    (pc = "ready" /\ ~raised) =>
        /\ (op = "sigma_ii" /\ arg = "x") =>
              \A m \in Slices : ret[m] = RawSigmaII(dEs.dE_dx, m)
        /\ (op = "sigma_ii" /\ arg = "y") =>
              \A m \in Slices : ret[m] = RawSigmaII(dEs.dE_dy, m)
        /\ op = "sigma_ij" =>
              \A m \in Slices : ret[m] = RawSigmaIJ(m)
        /\ op = "get_hall_nb" =>
              \A m \in Slices :
                  ret[m] = HallRatio(norm, RawSigmaII(dEs.dE_dx, m),
                                     RawSigmaII(dEs.dE_dy, m), RawSigmaIJ(m))
        /\ op = "get_density" =>
              \A m \in 1..Len(E) :
                  ret[m] = RoundDiv(GridSum([i \in Axis |-> [j \in Axis |->
                                       fermi_dirac(E[m][i][j])]]), norm)

\* C16 witness: a finite Hall number on a grid of more than one point, which
\* differs from the ratio taken without norm
C16_Witness ==
    /\ pc = "ready" /\ op = "get_hall_nb" /\ ~raised /\ norm > 1
    /\ \E m \in Slices :
         /\ IsNum(ret[m]) /\ ret[m] # 0
         /\ ret[m] # HallRatio(1, RawSigmaII(dEs.dE_dx, m),
                               RawSigmaII(dEs.dE_dy, m), RawSigmaIJ(m))

\* C17: the five derivative arrays are those of the hoppings and the grid
\* alone, the same for every chemical-potential sweep, and with t' = 0 the
\* mixed derivative is 0 at every grid point
C17_DerivativesIgnoreMu ==
    Synthetic =>
        /\ dEs = get_energies_dEs(hops, k_x, k_y)
        /\ hops[2] = 0 => \A i, j \in Axis : dEs.ddE_dxdy[i][j] = 0

\* C17 witness: t' = 0 with t and t'' not 0, on a sweep of several values
\* whose energies differ and whose other second derivatives are not 0
C17_Witness ==
    /\ Synthetic /\ hops[2] = 0 /\ hops[1] # 0 /\ hops[3] # 0
    /\ Len(k_x) > 3 /\ Len(mus) > 1
    /\ E[1] # E[2]
    /\ \E i, j \in Axis : dEs.ddE_dxx[i][j] # 0 /\ dEs.dE_dx[i][j] # 0

\* 1 / (pi * eta) in units of 1/AScale, for eta > 0
MaxWeight == RMul(InvPi, RoundDiv(Scale * AScale, eta))

\* whether omega equals the band energy at grid point (i, j) of slice m
Resonant(m, i, j) == E[m][i][j] = w

\* C18 as claimed: for eta > 0 every spectral weight lies in [0, 1/(pi*eta)]
\* and equals 1/(pi*eta) exactly at the grid points where omega equals the
\* band energy, with the filter or without it
C18_BoundAtEveryResonance ==
    (Synthetic /\ eta > 0) =>
        \A m \in Slices, i, j \in Axis :
            /\ 0 <= A[m][i][j] /\ A[m][i][j] <= MaxWeight
            /\ A[m][i][j] = MaxWeight <=> Resonant(m, i, j)

\* C18 as amended: the weight equals 1/(pi*eta) exactly at the resonant grid
\* points the filter keeps; a resonant point the filter removes has weight 0
C18_BoundAtKeptResonance ==
    (Synthetic /\ eta > 0) =>
        \A m \in Slices, i, j \in Axis :
            LET kept == ~use_filter \/ InDiamond(k_x[i][j], k_y[i][j])
            IN  /\ 0 <= A[m][i][j] /\ A[m][i][j] <= MaxWeight
                /\ A[m][i][j] = MaxWeight <=> (Resonant(m, i, j) /\ kept)
                /\ (Resonant(m, i, j) /\ ~kept) => A[m][i][j] = 0

\* C18 witness: a filtered model with a resonance at the centre, where the
\* weight is 1/(pi*eta), a resonance at the corner, where it is 0, and a
\* point off resonance with a weight in between
C18_Witness ==
    /\ Synthetic /\ eta > 0 /\ use_filter /\ Len(k_x) = 3
    /\ \E m \in Slices :
         /\ Resonant(m, 2, 2) /\ A[m][2][2] = MaxWeight
         /\ Resonant(m, 1, 1) /\ A[m][1][1] = 0
         /\ ~Resonant(m, 1, 2) /\ 0 < A[m][1][2] /\ A[m][1][2] < MaxWeight

\* C19: a call of sigma_ii with an argument other than "x" and "y" raises,
\* returns nothing and leaves the fields as they were; with "x" or "y" on
\* arrays of matching shape it returns
C19_OnlyAxisNames ==
    [][(pc = "ready" /\ op' = "sigma_ii") =>
          /\ arg' \notin {"x", "y"} =>
                (raised' /\ ret' = <<>> /\ fields' = fields)
          /\ (arg' \in {"x", "y"} /\ GridShapeMatches) => ~raised']_vars

\* C19 witness: sigma_ii("z") has raised on a model whose arrays match in
\* shape, on which sigma_ii("x") returns
C19_Witness ==
    /\ pc = "ready" /\ op = "sigma_ii" /\ arg = "z" /\ raised
    /\ GridShapeMatches /\ Len(k_x) > 1

====
